---- MODULE Spec2Model ----
(***************************************************************************)
(* Model of the Polymarket AI advisor: the browser-side conversation       *)
(* controller (script), its relevance scorer findRelevantMarkets, and the  *)
(* serverless key proxy api/get-api-key.js.                                *)
(*                                                                         *)
(* JavaScript strings are modelled as sequences of one-character strings,  *)
(* so that toLowerCase, split, trim and includes are computed.             *)
(***************************************************************************)
EXTENDS Integers, Sequences, FiniteSets, TLC

VARIABLES
  polymarketData,   \* global: null until the snapshot is loaded
  chatHistory,      \* global: list of {sender, content}
  isLoading,        \* global: busy flag
  loadState,        \* position of initializeApp: "loading", "loaded", "failed"
  inputValue,       \* value of the #messageInput textarea
  pending,          \* handlers suspended at their await of the model call
  event,            \* what the last handler invocation did
  query,            \* scorer: argument of findRelevantMarkets
  relevant,         \* scorer: value returned (or the exception raised)
  processEnv,       \* proxy: process.env of the serverless function
  responses         \* proxy: the requests served so far with their responses

vars ==
  <<polymarketData, chatHistory, isLoading, loadState, inputValue, pending,
    event, query, relevant, processEnv, responses>>

controllerVars ==
  <<polymarketData, chatHistory, isLoading, loadState, inputValue, pending, event>>

scorerVars ==
  <<query, relevant>>

proxyVars ==
  <<processEnv, responses>>

----------------------------------------------------------------------------
(* Bounds *)

\* longest market list drawn from LongPool
MaxMarkets ==
  7

\* longest market list drawn from the full pool
MaxShort ==
  3

\* turns the conversation may hold
MaxHistory ==
  6

\* requests the proxy log holds
MaxRequests ==
  2

----------------------------------------------------------------------------
(* JavaScript string and array primitives *)

Min(a, b) ==
  IF a < b THEN a ELSE b

UpperChars ==
  <<"A","B","C","D","E","F","G","H","I","J","K","L","M",
    "N","O","P","Q","R","S","T","U","V","W","X","Y","Z">>

LowerChars ==
  <<"a","b","c","d","e","f","g","h","i","j","k","l","m",
    "n","o","p","q","r","s","t","u","v","w","x","y","z">>

ToLowerChar(c) ==
  IF \E i \in 1..Len(UpperChars) : UpperChars[i] = c
    THEN LowerChars[CHOOSE i \in 1..Len(UpperChars) : UpperChars[i] = c]
    ELSE c

\* String.prototype.toLowerCase
toLowerCase(s) ==
  [i \in 1..Len(s) |-> ToLowerChar(s[i])]

\* String.prototype.includes
includes(s, w) ==
  \E i \in 0..(Len(s) - Len(w)) : SubSeq(s, i + 1, i + Len(w)) = w

\* String.prototype.split(' '): the pieces between single spaces
RECURSIVE split(_)
split(s) ==
  IF \A i \in 1..Len(s) : s[i] # " "
    THEN <<s>>
    ELSE LET i == CHOOSE k \in 1..Len(s) :
                    s[k] = " " /\ \A j \in 1..(k - 1) : s[j] # " "
         IN  <<SubSeq(s, 1, i - 1)>> \o split(SubSeq(s, i + 1, Len(s)))

\* String.prototype.trim
RECURSIVE trim(_)
trim(s) ==
  IF s = <<>> THEN s
  ELSE IF Head(s) = " " THEN trim(Tail(s))
  ELSE IF s[Len(s)] = " " THEN trim(SubSeq(s, 1, Len(s) - 1))
  ELSE s

\* Array.prototype.slice(from, to)
slice(s, from, to) ==
  SubSeq(s, from + 1, Min(to, Len(s)))

\* obj.field is undefined
Has(obj, field) ==
  field \in DOMAIN obj

----------------------------------------------------------------------------
(* findRelevantMarkets *)

\* the keyword lists of `categories`, in declaration order
categories ==
  <<
    \* premier_league
    <<"p","r","e","m","i","e","r"," ","l","e","a","g","u","e">>,
    <<"e","p","l">>,
    <<"e","n","g","l","i","s","h"," ","p","r","e","m","i","e","r">>,
    <<"m","a","n","c","h","e","s","t","e","r">>,
    <<"l","i","v","e","r","p","o","o","l">>,
    <<"c","h","e","l","s","e","a">>,
    <<"a","r","s","e","n","a","l">>,
    <<"t","o","t","t","e","n","h","a","m">>,
    \* football
    <<"f","o","o","t","b","a","l","l">>,
    <<"s","o","c","c","e","r">>,
    <<"f","i","f","a">>,
    <<"w","o","r","l","d"," ","c","u","p">>,
    <<"u","e","f","a">>,
    <<"c","h","a","m","p","i","o","n","s"," ","l","e","a","g","u","e">>,
    \* american_football
    <<"n","f","l">>,
    <<"s","u","p","e","r"," ","b","o","w","l">>,
    <<"a","m","e","r","i","c","a","n"," ","f","o","o","t","b","a","l","l">>,
    <<"c","h","i","e","f","s">>,
    <<"c","o","w","b","o","y","s">>,
    <<"p","a","t","r","i","o","t","s">>,
    \* basketball
    <<"n","b","a">>,
    <<"b","a","s","k","e","t","b","a","l","l">>,
    <<"l","a","k","e","r","s">>,
    <<"w","a","r","r","i","o","r","s">>,
    <<"l","e","b","r","o","n">>,
    <<"f","i","n","a","l","s">>,
    \* baseball
    <<"m","l","b">>,
    <<"b","a","s","e","b","a","l","l">>,
    <<"y","a","n","k","e","e","s">>,
    <<"d","o","d","g","e","r","s">>,
    <<"w","o","r","l","d"," ","s","e","r","i","e","s">>,
    \* fed_rates
    <<"f","e","d">>,
    <<"f","e","d","e","r","a","l"," ","r","e","s","e","r","v","e">>,
    <<"i","n","t","e","r","e","s","t"," ","r","a","t","e">>,
    <<"f","o","m","c">>,
    <<"j","e","r","o","m","e"," ","p","o","w","e","l","l">>,
    \* politics
    <<"e","l","e","c","t","i","o","n">>,
    <<"p","r","e","s","i","d","e","n","t">>,
    <<"b","i","d","e","n">>,
    <<"t","r","u","m","p">>,
    <<"c","o","n","g","r","e","s","s">>,
    <<"s","e","n","a","t","e">>,
    \* crypto
    <<"b","i","t","c","o","i","n">>,
    <<"e","t","h","e","r","e","u","m">>,
    <<"c","r","y","p","t","o">>,
    <<"b","t","c">>,
    <<"e","t","h">>,
    <<"b","i","n","a","n","c","e">>,
    <<"c","o","i","n","b","a","s","e">>,
    \* stocks
    <<"s","t","o","c","k">>,
    <<"n","a","s","d","a","q">>,
    <<"d","o","w">>,
    <<"s","p","5","0","0">>,
    <<"s","&","p">>,
    <<"a","p","p","l","e">>,
    <<"t","e","s","l","a">>,
    <<"n","v","i","d","i","a">>,
    \* entertainment
    <<"o","s","c","a","r">>,
    <<"e","m","m","y">>,
    <<"g","r","a","m","m","y">>,
    <<"m","o","v","i","e">>,
    <<"n","e","t","f","l","i","x">>,
    <<"d","i","s","n","e","y">>
  >>

\* queryLower.split(' ').filter(word => word.length > 2)
queryWords(queryLower) ==
  SelectSeq(split(queryLower), LAMBDA word : Len(word) > 2)

\* direct keyword matching: +10 per word in the title, +5 in the description
RECURSIVE keywordScore(_, _, _)
keywordScore(title, description, words) ==
  IF words = <<>> THEN 0
  ELSE (IF includes(title, Head(words)) THEN 10 ELSE 0)
     + (IF includes(description, Head(words)) THEN 5 ELSE 0)
     + keywordScore(title, description, Tail(words))

\* category matching: +15 per keyword found in the query and in the market text
RECURSIVE categoryScore(_, _, _)
categoryScore(title, description, keywords) ==
  IF keywords = <<>> THEN 0
  ELSE (IF includes(title, Head(keywords)) \/ includes(description, Head(keywords))
          THEN 15 ELSE 0)
     + categoryScore(title, description, Tail(keywords))

\* market.volume24h > n, where undefined > n is false
volumeAbove(market, n) ==
  Has(market, "volume24h") /\ market.volume24h > n

WeightsAsRelevance(market) ==
  (IF volumeAbove(market, 1000000) THEN 30 ELSE 0)
  + (IF volumeAbove(market, 5000000) THEN 20 ELSE 0)

\* volume weighting: +3 above 1,000,000 and a further +2 above 5,000,000
volumeScore(market) ==
  (IF volumeAbove(market, 1000000) THEN 3 ELSE 0)
  + (IF volumeAbove(market, 5000000) THEN 2 ELSE 0)

\* market.title.toLowerCase() or market.description.toLowerCase() raises
\* a TypeError when the field is undefined
scoringThrows(market) ==
  ~Has(market, "title") \/ ~Has(market, "description")

\* the body of markets.forEach: the score of one market
marketScore(market, queryLower, keywordsInQuery) ==
  LET title == toLowerCase(market.title)
      description == toLowerCase(market.description)
  IN  keywordScore(title, description, queryWords(queryLower))
      + categoryScore(title, description, keywordsInQuery)
      + volumeScore(market)

\* Object.entries(searchScore): <<index, score>> of the markets with
\* score > 0, integer keys in ascending order
RECURSIVE searchScoreEntries(_, _)
searchScoreEntries(scores, i) ==
  IF i > Len(scores) THEN <<>>
  ELSE (IF scores[i] > 0 THEN <<(<<i, scores[i]>>)>> ELSE <<>>)
       \o searchScoreEntries(scores, i + 1)

InsertAscending(sorted, e) ==
  LET n == Cardinality({k \in 1..Len(sorted) : sorted[k][2] - e[2] <= 0})
  IN  SubSeq(sorted, 1, n) \o <<e>> \o SubSeq(sorted, n + 1, Len(sorted))

\* insert e behind every entry the comparator b - a does not put after it
insertByScore(sorted, e) ==
  LET n == Cardinality({k \in 1..Len(sorted) : e[2] - sorted[k][2] <= 0})
  IN  SubSeq(sorted, 1, n) \o <<e>> \o SubSeq(sorted, n + 1, Len(sorted))

\* .sort(([, a], [, b]) => b - a): stable, descending by score
RECURSIVE sortByScore(_)
sortByScore(entries) ==
  IF entries = <<>> THEN <<>>
  ELSE insertByScore(sortByScore(SubSeq(entries, 1, Len(entries) - 1)),
                     entries[Len(entries)])

\* m.volume24h || 0
volumeOrZero(m) ==
  IF Has(m, "volume24h") THEN m.volume24h ELSE 0

insertByVolume(sorted, m) ==
  LET n == Cardinality({k \in 1..Len(sorted) :
                          volumeOrZero(m) - volumeOrZero(sorted[k]) <= 0})
  IN  SubSeq(sorted, 1, n) \o <<m>> \o SubSeq(sorted, n + 1, Len(sorted))

\* .sort((a, b) => (b.volume24h || 0) - (a.volume24h || 0))
RECURSIVE sortByVolume(_)
sortByVolume(ms) ==
  IF ms = <<>> THEN <<>>
  ELSE insertByVolume(sortByVolume(SubSeq(ms, 1, Len(ms) - 1)), ms[Len(ms)])

FallbackUnfiltered(markets) ==
  slice(sortByVolume(markets), 0, 5)

\* the highest-volume fallback: filter, sort, slice(0, 5)
volumeFallback(markets) ==
  slice(sortByVolume(SelectSeq(markets, LAMBDA m : volumeAbove(m, 0))), 0, 5)

\* the six best entries: sort, slice(0, 6)
topEntries(entries) ==
  slice(sortByScore(entries), 0, 6)

\* polymarketData.markets || []
marketsOf(data) ==
  IF Has(data, "markets") THEN data.markets ELSE <<>>

Returned(v) ==
  [threw |-> FALSE, value |-> v]

Thrown ==
  [threw |-> TRUE]

\* the body of findRelevantMarkets(query) over the snapshot `data`
findRelevantMarketsIn(data, q) ==
  LET queryLower == toLowerCase(q)
      markets == marketsOf(data)
      keywordsInQuery == SelectSeq(categories, LAMBDA keyword : includes(queryLower, keyword))
  IN  IF \E i \in 1..Len(markets) : scoringThrows(markets[i])
        THEN Thrown
        ELSE LET scores == [i \in 1..Len(markets) |->
                              marketScore(markets[i], queryLower, keywordsInQuery)]
                 top == topEntries(searchScoreEntries(scores, 1))
                 relevantMarkets == [k \in 1..Len(top) |-> markets[top[k][1]]]
             IN  IF Len(relevantMarkets) = 0
                   THEN Returned(volumeFallback(markets))
                   ELSE Returned(relevantMarkets)

\* findRelevantMarkets(query), reading the global polymarketData
findRelevantMarkets(q) ==
  findRelevantMarketsIn(polymarketData, q)

----------------------------------------------------------------------------
(* Inputs of the scorer *)

\* "who will win the premier league"
QueryPremierLeague ==
  <<"w","h","o"," ","w","i","l","l"," ","w","i","n"," ","t","h","e"," ","p","r","e","m","i","e","r"," ","l","e","a","g","u","e">>
\* "Fed Rate"
QueryFedRate ==
  <<"F","e","d"," ","R","a","t","e">>
\* "Manchester City to win Premier League"
TitleManCity ==
  <<"M","a","n","c","h","e","s","t","e","r"," ","C","i","t","y"," ","t","o"," ","w","i","n"," ","P","r","e","m","i","e","r"," ","L","e","a","g","u","e">>
\* "EPL title race"
DescEplRace ==
  <<"E","P","L"," ","t","i","t","l","e"," ","r","a","c","e">>
\* "Fed interest rate decision"
TitleFed ==
  <<"F","e","d"," ","i","n","t","e","r","e","s","t"," ","r","a","t","e"," ","d","e","c","i","s","i","o","n">>
\* "FOMC meeting"
DescFomc ==
  <<"F","O","M","C"," ","m","e","e","t","i","n","g">>
\* "NBA Finals"
TitleNba ==
  <<"N","B","A"," ","F","i","n","a","l","s">>
\* "Who will win"
DescWhoWins ==
  <<"W","h","o"," ","w","i","l","l"," ","w","i","n">>
\* "Oscar best movie"
TitleOscar ==
  <<"O","s","c","a","r"," ","b","e","s","t"," ","m","o","v","i","e">>
\* "Academy awards"
DescAwards ==
  <<"A","c","a","d","e","m","y"," ","a","w","a","r","d","s">>

\* "" (no word, no keyword), a query in mixed case, and a sentence
Queries ==
  {<<>>, QueryFedRate, QueryPremierLeague}

\* `null`, the value of polymarketData before the snapshot is stored
Null ==
  [null |-> TRUE]

EplMarket ==
  [title |-> TitleManCity, description |-> DescEplRace, volume24h |-> 500000]

FedMarket ==
  [title |-> TitleFed, description |-> DescFomc, volume24h |-> 6000000]

\* no volume24h field
NbaMarket ==
  [title |-> TitleNba, description |-> DescWhoWins]

OscarMarket(volume) ==
  [title |-> TitleOscar, description |-> DescAwards, volume24h |-> volume]

\* no title field
NoTitleMarket ==
  [description |-> DescFomc, volume24h |-> 2000000]

\* no description field
NoDescriptionMarket ==
  [title |-> TitleOscar, volume24h |-> 0]

Pool ==
  {EplMarket, FedMarket, NbaMarket, OscarMarket(0), OscarMarket(500000),
   OscarMarket(900000), OscarMarket(2000000), NoTitleMarket, NoDescriptionMarket}

LongPool ==
  {EplMarket, FedMarket}

\* the i-th market of a snapshot has the id "i"
WithIds(ms) ==
  [i \in 1..Len(ms) |-> [id |-> ToString(i)] @@ ms[i]]

MarketLists ==
  UNION {[1..n -> Pool] : n \in 0..MaxShort}
  \cup UNION {[1..n -> LongPool] : n \in (MaxShort + 1)..MaxMarkets}

\* snapshots: {markets: [...]} and one without a markets field
Snapshots ==
  {[markets |-> WithIds(ms)] : ms \in MarketLists} \cup {[updated |-> 0]}

----------------------------------------------------------------------------
(* The scorer applied to one query over one loaded snapshot *)

ScorerInit ==
  /\ polymarketData \in Snapshots
  /\ loadState = "loaded"
  /\ query \in Queries
  /\ relevant = <<>>
  /\ chatHistory = <<>>
  /\ isLoading = FALSE
  /\ inputValue = <<>>
  /\ pending = <<>>
  /\ event = "none"
  /\ processEnv = [NODE_ENV |-> "production"]
  /\ responses = <<>>

CallFindRelevantMarkets ==
  /\ relevant = <<>>
  /\ relevant' = <<findRelevantMarkets(query)>>
  /\ UNCHANGED <<controllerVars, query, proxyVars>>

ScorerNext ==
  CallFindRelevantMarkets

ScorerSpec ==
  ScorerInit /\ [][ScorerNext]_vars

----------------------------------------------------------------------------
(* The conversation controller *)

Outcomes ==
  <<[name |-> "Yes"], [name |-> "No"]>>

\* snapshots the data URL may serve: two scorable markets; a market
\* without title; a market without outcomes; no markets field
ControllerSnapshots ==
  {[markets |-> WithIds(<<[outcomes |-> Outcomes] @@ FedMarket,
                          [outcomes |-> Outcomes] @@ NbaMarket>>)],
   [markets |-> WithIds(<<[outcomes |-> Outcomes] @@ NoTitleMarket>>)],
   [markets |-> WithIds(<<EplMarket>>)],
   [updated |-> 0]}

\* what the user may have typed into the textarea
Inputs ==
  {<<>>, <<" ", " ">>, <<" ", "F", "e", "d", " ">>, QueryPremierLeague}

\* the text the model service answers with
AiResponses ==
  {"analysis"}

\* how the fetch of the model call may end
ModelCallFailures ==
  {"network error", "status not ok", "malformed body"}

SendErrorText ==
  "Sorry, I encountered an error while processing your request. Please try again."

DetailErrorText ==
  "Sorry, I couldn't analyze this specific market right now."

\* addMessage(sender, content): chatHistory.push({sender, content})
addMessage(sender, content) ==
  chatHistory' = Append(chatHistory, [sender |-> sender, content |-> content])

\* room for the turns of one more request and of those in flight
HistoryHasRoom ==
  Len(chatHistory) + Len(pending) + 2 <= MaxHistory

RemoveAt(s, i) ==
  SubSeq(s, 1, i - 1) \o SubSeq(s, i + 1, Len(s))

\* markets.find(m => m.id === marketId)
findMarket(marketId) ==
  LET ms == polymarketData.markets
      hits == {i \in 1..Len(ms) : ms[i].id = marketId}
  IN  IF hits = {} THEN <<>>
      ELSE <<ms[CHOOSE i \in hits : \A j \in hits : i <= j]>>

\* createMarketCard reads market.outcomes[0] and [1]
cardThrows(market) ==
  ~Has(market, "outcomes")

\* formatResponseWithMarkets(aiResponse, relevantMarkets): the answer
\* followed by one card per market
formatResponseWithMarkets(aiResponse, relevantMarkets) ==
  [answer |-> aiResponse,
   cards |-> [k \in 1..Len(relevantMarkets) |-> relevantMarkets[k].id]]

\* ids of the market cards on display
RenderedCards ==
  UNION {{chatHistory[t].content.cards[k] :
            k \in 1..Len(chatHistory[t].content.cards)} :
         t \in {u \in 1..Len(chatHistory) : Has(chatHistory[u].content, "cards")}}

\* model calls awaiting their response
OutstandingCalls ==
  SelectSeq(pending, LAMBDA r : r.called)

Init ==
  /\ polymarketData = Null
  /\ chatHistory = <<>>
  /\ isLoading = FALSE
  /\ loadState = "loading"
  /\ inputValue = <<>>
  /\ pending = <<>>
  /\ event = "none"
  /\ query = <<>>
  /\ relevant = <<>>
  /\ processEnv = [NODE_ENV |-> "production"]
  /\ responses = <<>>

\* loadPolymarketData: the fetch answers 2xx with a JSON object
LoadSucceeds ==
  /\ loadState = "loading"
  /\ \E data \in ControllerSnapshots : polymarketData' = data
  /\ loadState' = "loaded"
  /\ event' = "loaded"
  /\ UNCHANGED <<chatHistory, isLoading, inputValue, pending, scorerVars, proxyVars>>

\* loadPolymarketData throws: network error, status not ok, or bad JSON
LoadFails ==
  /\ loadState = "loading"
  /\ loadState' = "failed"
  /\ event' = "load failed"
  /\ UNCHANGED <<polymarketData, chatHistory, isLoading, inputValue, pending,
                 scorerVars, proxyVars>>

\* the user edits the textarea
TypeInput ==
  /\ \E text \in Inputs : inputValue' = text
  /\ event' = "input"
  /\ UNCHANGED <<polymarketData, chatHistory, isLoading, loadState, pending,
                 scorerVars, proxyVars>>

NeverBusy ==
  FALSE

\* if (isLoading) return
busy ==
  isLoading

DataAssumedLoaded ==
  FALSE

\* if (!polymarketData) { alert(...); return }
dataMissing ==
  polymarketData = Null

\* getAIResponse up to its await: score, build the prompt, issue the call
\* unless the scorer raised
startAIResponse(message) ==
  LET found == findRelevantMarkets(message)
  IN  IF found.threw
        THEN [kind |-> "send", called |-> FALSE, relevantMarkets |-> <<>>]
        ELSE [kind |-> "send", called |-> TRUE, relevantMarkets |-> found.value]

\* sendMessage with `value` in the textarea, up to its await
sendMessage(value) ==
  LET message == trim(value)
  IN  IF busy
        THEN /\ event' = "send dropped: busy"
             /\ inputValue' = value
             /\ UNCHANGED <<chatHistory, isLoading, pending>>
      ELSE IF message = <<>>
        THEN /\ event' = "send dropped: empty"
             /\ inputValue' = value
             /\ UNCHANGED <<chatHistory, isLoading, pending>>
      ELSE IF dataMissing
        THEN /\ event' = "send refused: no data"
             /\ inputValue' = value
             /\ UNCHANGED <<chatHistory, isLoading, pending>>
      ELSE /\ inputValue' = <<>>
           /\ addMessage("user", [message |-> message])
           /\ isLoading' = TRUE
           /\ pending' = Append(pending, startAIResponse(message))
           /\ event' = "send accepted"

\* Enter or the send button; the listeners exist once the data is loaded
ClickSend ==
  /\ loadState = "loaded"
  /\ HistoryHasRoom
  /\ sendMessage(inputValue)
  /\ UNCHANGED <<polymarketData, loadState, scorerVars, proxyVars>>

\* window.askQuestion(question)
AskQuestion ==
  /\ HistoryHasRoom
  /\ \E question \in Inputs : sendMessage(question)
  /\ UNCHANGED <<polymarketData, loadState, scorerVars, proxyVars>>

\* sendMessage resumes with the formatted answer
SendSucceeds(i) ==
  /\ pending[i].kind = "send"
  /\ pending[i].called
  /\ \A k \in 1..Len(pending[i].relevantMarkets) :
       ~cardThrows(pending[i].relevantMarkets[k])
  /\ \E aiResponse \in AiResponses :
       addMessage("bot", formatResponseWithMarkets(aiResponse, pending[i].relevantMarkets))
  /\ isLoading' = FALSE
  /\ pending' = RemoveAt(pending, i)
  /\ event' = "send succeeded"
  /\ UNCHANGED <<polymarketData, loadState, inputValue, scorerVars, proxyVars>>

SendFailsStillBusy(i) ==
  /\ pending[i].kind = "send"
  /\ addMessage("bot", [error |-> SendErrorText])
  /\ isLoading' = isLoading
  /\ pending' = RemoveAt(pending, i)
  /\ event' = "send failed"
  /\ UNCHANGED <<polymarketData, loadState, inputValue, scorerVars, proxyVars>>

SendFailsDroppingTurn(i) ==
  /\ pending[i].kind = "send"
  /\ chatHistory' = Append(SubSeq(chatHistory, 1, Len(chatHistory) - 1),
                           [sender |-> "bot", content |-> [error |-> SendErrorText]])
  /\ isLoading' = FALSE
  /\ pending' = RemoveAt(pending, i)
  /\ event' = "send failed"
  /\ UNCHANGED <<polymarketData, loadState, inputValue, scorerVars, proxyVars>>

\* sendMessage resumes in its catch block: the scorer or a card raised,
\* or the model call failed
SendFails(i) ==
  /\ pending[i].kind = "send"
  /\ \/ ~pending[i].called
     \/ \E failure \in ModelCallFailures : TRUE
     \/ \E k \in 1..Len(pending[i].relevantMarkets) :
          cardThrows(pending[i].relevantMarkets[k])
  /\ addMessage("bot", [error |-> SendErrorText])
  /\ isLoading' = FALSE
  /\ pending' = RemoveAt(pending, i)
  /\ event' = "send failed"
  /\ UNCHANGED <<polymarketData, loadState, inputValue, scorerVars, proxyVars>>

\* a click on a rendered market card: analyzeSpecificMarket up to its await
AnalyzeSpecificMarket ==
  /\ HistoryHasRoom
  /\ \E marketId \in RenderedCards :
       LET market == findMarket(marketId)
       IN  IF market = <<>>
             THEN /\ event' = "analyze: no such market"
                  /\ UNCHANGED <<chatHistory, pending>>
             ELSE /\ addMessage("user", [tellMeMoreAbout |-> market[1].title])
                  /\ pending' = Append(pending,
                                       [kind |-> "detail", called |-> TRUE,
                                        relevantMarkets |-> market])
                  /\ event' = "analyze started"
  /\ UNCHANGED <<polymarketData, isLoading, loadState, inputValue, scorerVars, proxyVars>>

\* analyzeSpecificMarket resumes with the detailed analysis and the card
DetailSucceeds(i) ==
  /\ pending[i].kind = "detail"
  /\ ~cardThrows(pending[i].relevantMarkets[1])
  /\ \E aiResponse \in AiResponses :
       addMessage("bot", [analysis |-> aiResponse,
                          cards |-> <<pending[i].relevantMarkets[1].id>>])
  /\ pending' = RemoveAt(pending, i)
  /\ event' = "analyze succeeded"
  /\ UNCHANGED <<polymarketData, isLoading, loadState, inputValue, scorerVars, proxyVars>>

\* analyzeSpecificMarket resumes in its catch block
DetailFails(i) ==
  /\ pending[i].kind = "detail"
  /\ \E failure \in ModelCallFailures : TRUE
  /\ addMessage("bot", [error |-> DetailErrorText])
  /\ pending' = RemoveAt(pending, i)
  /\ event' = "analyze failed"
  /\ UNCHANGED <<polymarketData, isLoading, loadState, inputValue, scorerVars, proxyVars>>

SendCompletes ==
  \E i \in 1..Len(pending) : SendSucceeds(i) \/ SendFails(i)

DetailCompletes ==
  \E i \in 1..Len(pending) : DetailSucceeds(i) \/ DetailFails(i)

Next ==
  \/ LoadSucceeds
  \/ LoadFails
  \/ TypeInput
  \/ ClickSend
  \/ AskQuestion
  \/ AnalyzeSpecificMarket
  \/ \E i \in 1..Len(pending) : SendSucceeds(i)
  \/ \E i \in 1..Len(pending) : SendFails(i)
  \/ \E i \in 1..Len(pending) : DetailSucceeds(i)
  \/ \E i \in 1..Len(pending) : DetailFails(i)

Spec ==
  Init /\ [][Next]_vars

\* every model call eventually returns or fails
FairSpec ==
  Spec /\ WF_vars(SendCompletes) /\ WF_vars(DetailCompletes)

----------------------------------------------------------------------------
(* The key proxy, api/get-api-key.js *)

Methods ==
  {"GET", "POST", "PUT", "DELETE"}

\* process.env without the key, with an empty one, and with two secrets
ProcessEnvs ==
  {[NODE_ENV |-> "production"],
   [NODE_ENV |-> "production", OPENROUTER_API_KEY |-> ""],
   [NODE_ENV |-> "production", OPENROUTER_API_KEY |-> "sk-or-1"],
   [NODE_ENV |-> "production", OPENROUTER_API_KEY |-> "sk-or-2"]}

\* !apiKey: undefined or the empty string
falsy(env, name) ==
  ~Has(env, name) \/ env[name] = ""

HandlerSkippingMethodCheck(req, env) ==
  IF falsy(env, "OPENROUTER_API_KEY")
    THEN [status |-> 500, json |-> [error |-> "API key not configured"]]
    ELSE [status |-> 200, json |-> [apiKey |-> env.OPENROUTER_API_KEY]]

\* handler(req, res): the status and JSON body it sends
handler(req, env) ==
  IF req.method # "GET"
    THEN [status |-> 405, json |-> [error |-> "Method not allowed"]]
  ELSE IF falsy(env, "OPENROUTER_API_KEY")
    THEN [status |-> 500, json |-> [error |-> "API key not configured"]]
  ELSE [status |-> 200, json |-> [apiKey |-> env.OPENROUTER_API_KEY]]

ProxyInit ==
  /\ processEnv \in ProcessEnvs
  /\ responses = <<>>
  /\ polymarketData = Null
  /\ chatHistory = <<>>
  /\ isLoading = FALSE
  /\ loadState = "loading"
  /\ inputValue = <<>>
  /\ pending = <<>>
  /\ event = "none"
  /\ query = <<>>
  /\ relevant = <<>>

\* one request served by the function
HandleRequest ==
  /\ Len(responses) < MaxRequests
  /\ \E method \in Methods :
       LET req == [method |-> method]
       IN  responses' = Append(responses,
                               [req |-> req, env |-> processEnv,
                                res |-> handler(req, processEnv)])
  /\ UNCHANGED <<processEnv, controllerVars, scorerVars>>

\* the deployment's environment is reconfigured between requests
Redeploy ==
  /\ \E env \in ProcessEnvs : processEnv' = env
  /\ UNCHANGED <<responses, controllerVars, scorerVars>>

ProxyNext ==
  \/ HandleRequest
  \/ Redeploy

ProxySpec ==
  ProxyInit /\ [][ProxyNext]_vars

----------------------------------------------------------------------------
(* Properties of the scorer *)

ScorerReturned ==
  relevant # <<>> /\ ~relevant[1].threw

\* the scorer was called over markets that all carry the title and the
\* description of the data model
ScoredWellFormed ==
  /\ relevant # <<>>
  /\ \A i \in 1..Len(marketsOf(polymarketData)) :
       ~scoringThrows(marketsOf(polymarketData)[i])

StoreMarkets ==
  marketsOf(polymarketData)

\* store positions of the returned markets, in the order returned
ReturnedIndexes ==
  LET r == relevant[1].value
  IN  [k \in 1..Len(r) |->
         CHOOSE i \in 1..Len(StoreMarkets) : StoreMarkets[i].id = r[k].id]

\* the score the scorer gives each market of the store for `query`
StoreScores ==
  LET queryLower == toLowerCase(query)
      inQuery == SelectSeq(categories, LAMBDA keyword : includes(queryLower, keyword))
  IN  [i \in 1..Len(StoreMarkets) |-> marketScore(StoreMarkets[i], queryLower, inQuery)]

StoreVolumes ==
  [i \in 1..Len(StoreMarkets) |-> volumeOrZero(StoreMarkets[i])]

TextOf(m, field) ==
  IF Has(m, field) THEN toLowerCase(m[field]) ELSE <<>>

WordsOfQuery ==
  LET pieces == split(toLowerCase(query))
  IN  {w \in {pieces[k] : k \in 1..Len(pieces)} : Len(w) > 2}

KeywordsOfQuery ==
  LET queryLower == toLowerCase(query)
  IN  {kw \in {categories[k] : k \in 1..Len(categories)} : includes(queryLower, kw)}

\* per market of the store: a query word in the title, or a category
\* keyword of the query in the title or description
StrongHits ==
  LET words == WordsOfQuery
      keywords == KeywordsOfQuery
  IN  [i \in 1..Len(StoreMarkets) |->
         LET title == TextOf(StoreMarkets[i], "title")
             description == TextOf(StoreMarkets[i], "description")
         IN  \/ \E w \in words : includes(title, w)
             \/ \E kw \in keywords : includes(title, kw) \/ includes(description, kw)]

\* per market of the store: a query word in the description
DescriptionHits ==
  LET words == WordsOfQuery
  IN  [i \in 1..Len(StoreMarkets) |->
         \E w \in words : includes(TextOf(StoreMarkets[i], "description"), w)]

\* r (store positions) holds the `limit` best positions of `among`, best
\* first by `key`
IsTopBy(r, among, key, limit) ==
  /\ Len(r) = Min(limit, Cardinality(among))
  /\ \A k \in 1..Len(r) : r[k] \in among
  /\ \A j, k \in 1..Len(r) : j < k => key[r[j]] >= key[r[k]]
  /\ \A i \in among \ {r[k] : k \in 1..Len(r)} :
       \A k \in 1..Len(r) : key[i] <= key[r[k]]

VolumeRanking ==
  /\ ~relevant[1].threw
  /\ IsTopBy(ReturnedIndexes,
             {i \in 1..Len(StoreMarkets) : volumeAbove(StoreMarkets[i], 0)},
             StoreVolumes, 5)

NoTextHitAnywhere ==
  LET strong == StrongHits
      weak == DescriptionHits
  IN  \A i \in 1..Len(StoreMarkets) : ~strong[i] /\ ~weak[i]

\* C4 as stated: whenever no market has a title, description or category
\* hit, the scorer returns the markets with volume24h > 0, highest volume
\* first, cut to 5.
C4_FallbackWheneverNoTextHit ==
  (ScoredWellFormed /\ NoTextHitAnywhere) => VolumeRanking

NothingScores ==
  /\ NoTextHitAnywhere
  /\ \A i \in 1..Len(StoreMarkets) : ~volumeAbove(StoreMarkets[i], 1000000)

\* C4 amended: whenever no market scores above 0 (no title, description or
\* category hit and no volume24h above 1,000,000), the scorer returns the
\* markets with volume24h > 0, highest volume first, cut to 5.
C4_FallbackWhenNothingScores ==
  (ScoredWellFormed /\ NothingScores) => VolumeRanking

\* the fallback ranked volumes 900,000 and 500,000 and dropped the
\* zero-volume market standing first in the store
C4_Witness ==
  /\ ScorerReturned
  /\ Len(StoreMarkets) = 3
  /\ StoreVolumes = <<0, 500000, 900000>>
  /\ NothingScores
  /\ ReturnedIndexes = <<3, 2>>

\* C5: when some market scores above 0 the scorer returns only such
\* markets, in non-increasing score order with equal scores in store order,
\* min(6, number of positive scores) of them, none outscored by a market
\* left out.
C5_RankedSelection ==
  ScoredWellFormed =>
    LET scores == StoreScores
        r == ReturnedIndexes
        positive == {i \in 1..Len(scores) : scores[i] > 0}
    IN  positive # {} =>
          /\ ~relevant[1].threw
          /\ IsTopBy(r, positive, scores, 6)
          /\ \A j, k \in 1..Len(r) :
               (j < k /\ scores[r[j]] = scores[r[k]]) => r[j] < r[k]

\* seven markets qualify, six are returned, among them a tie and a
\* strictly higher score that stood later in the store
C5_Witness ==
  /\ ScorerReturned
  /\ Len(StoreMarkets) = 7
  /\ LET scores == StoreScores
         r == ReturnedIndexes
     IN  /\ \A i \in 1..7 : scores[i] > 0
         /\ Len(r) = 6
         /\ scores[r[1]] = scores[r[2]]
         /\ scores[r[1]] > scores[r[6]]
         /\ r[1] > r[6]

\* undefined title and description replaced by ''
FillMissing(data) ==
  IF Has(data, "markets")
    THEN [markets |->
            [i \in 1..Len(data.markets) |->
               data.markets[i] @@ [title |-> <<>>, description |-> <<>>]]]
    ELSE data

\* C6 as stated: the scorer never raises, and a missing title or
\* description is scored as the empty string.
C6_ToleratesMissingFields ==
  relevant # <<>> =>
    relevant[1] = findRelevantMarketsIn(FillMissing(polymarketData), query)

\* C7: a market with a query word in its title, or a category keyword
\* shared with the query, stands before every returned market without
\* any title, description or category hit, whatever their volumes.
C7_TextDominatesVolume ==
  ScoredWellFormed =>
    /\ ~relevant[1].threw
    /\ LET r == ReturnedIndexes
           strong == StrongHits
           weak == DescriptionHits
       IN  \A h \in 1..Len(StoreMarkets) : \A k \in 1..Len(r) :
             (strong[h] /\ ~strong[r[k]] /\ ~weak[r[k]])
               => \E j \in 1..(k - 1) : r[j] = h

\* the query is "who will win the premier league"; a market without any
\* hit and volume above 5,000,000 stands first in the store and is
\* returned behind the Premier League market
C7_Witness ==
  /\ ScorerReturned
  /\ query = QueryPremierLeague
  /\ Len(StoreMarkets) = 2
  /\ StoreMarkets[1].title = TitleFed /\ volumeAbove(StoreMarkets[1], 5000000)
  /\ StoreMarkets[2].title = TitleManCity
  /\ ~StrongHits[1] /\ ~DescriptionHits[1] /\ StrongHits[2]
  /\ ReturnedIndexes = <<2, 1>>

----------------------------------------------------------------------------
(* Properties of the controller *)

SendInFlight ==
  \E i \in 1..Len(pending) : pending[i].kind = "send"

\* outcomes of an invocation of sendMessage
SendEvents ==
  {"send dropped: busy", "send dropped: empty", "send refused: no data",
   "send accepted"}

SendErrorTurn ==
  [sender |-> "bot", content |-> [error |-> SendErrorText]]

\* C1 as stated: at most one model call is outstanding, sends and
\* drill-downs counted together.
C1_SingleFlight ==
  Len(OutstandingCalls) <= 1

\* C2: the step in which an accepted send fails keeps every earlier turn,
\* appends exactly the fixed error turn, and leaves the busy flag false
\* with the data loaded, so that the guards of the next send pass.
C2_FailureKeepsHistory ==
  [][event' = "send failed" =>
       /\ chatHistory' = Append(chatHistory, SendErrorTurn)
       /\ isLoading' = FALSE
       /\ polymarketData' # Null]_vars

\* a send failed after an earlier exchange had completed
C2_Witness ==
  /\ event = "send failed"
  /\ Len(chatHistory) = 4
  /\ Has(chatHistory[2].content, "answer")
  /\ chatHistory[4] = SendErrorTurn
  /\ ~isLoading

\* C3: an invocation of sendMessage while the busy flag is set is
\* dropped and changes neither history, store, busy flag nor the requests
\* in flight; and only an invocation made while the flag is clear ever
\* adds a send to the requests in flight.
C3_BusySendDropped ==
  [][/\ (isLoading /\ event' \in SendEvents) =>
          /\ event' = "send dropped: busy"
          /\ UNCHANGED <<chatHistory, polymarketData, isLoading, pending>>
     /\ Len(SelectSeq(pending', LAMBDA r : r.kind = "send"))
          > Len(SelectSeq(pending, LAMBDA r : r.kind = "send"))
          => (~isLoading /\ event' = "send accepted")]_vars

\* a non-empty submission was dropped while a request was in flight
C3_Witness ==
  /\ event = "send dropped: busy"
  /\ isLoading
  /\ trim(inputValue) # <<>>
  /\ Len(OutstandingCalls) = 1

\* C8: 405 with an error body for every method but GET, 500 with an error
\* body for GET without a secret, 200 with the secret for GET with one;
\* equal requests under equal configuration get equal responses.
C8_ThreeResponses ==
  /\ \A k \in 1..Len(responses) :
       LET r == responses[k]
           configured == /\ Has(r.env, "OPENROUTER_API_KEY")
                         /\ r.env.OPENROUTER_API_KEY # ""
       IN  /\ r.req.method # "GET" =>
                /\ r.res.status = 405
                /\ DOMAIN r.res.json = {"error"}
           /\ (r.req.method = "GET" /\ ~configured) =>
                /\ r.res.status = 500
                /\ DOMAIN r.res.json = {"error"}
           /\ (r.req.method = "GET" /\ configured) =>
                /\ r.res.status = 200
                /\ r.res.json = [apiKey |-> r.env.OPENROUTER_API_KEY]
  /\ \A j, k \in 1..Len(responses) :
       (responses[j].req = responses[k].req /\ responses[j].env = responses[k].env)
         => responses[j].res = responses[k].res

\* a GET was answered with the secret, and then a POST with 405 under the
\* same configured secret
C8_Witness ==
  /\ Len(responses) = 2
  /\ responses[1].req.method = "GET" /\ responses[1].res.status = 200
  /\ responses[1].res.json.apiKey = "sk-or-1"
  /\ responses[2].req.method = "POST" /\ responses[2].res.status = 405
  /\ responses[2].env = responses[1].env

\* C9: a model call is in flight only if the store is loaded; once the
\* load has failed it stays failed, the store stays unloaded, and no step
\* adds a turn, sets the busy flag or starts a request.
C9_LoadFailureIsFatal ==
  /\ [](pending # <<>> => polymarketData # Null)
  /\ [][loadState = "failed" =>
          /\ loadState' = "failed"
          /\ UNCHANGED <<polymarketData, chatHistory, isLoading, pending>>]_vars

\* after the failed load a non-empty question was submitted and refused
C9_Witness ==
  /\ loadState = "failed"
  /\ event = "send refused: no data"
  /\ trim(inputValue) # <<>>
  /\ polymarketData = Null
  /\ chatHistory = <<>>

\* C10: the busy flag is set exactly while a send is in flight; the send
\* ends in one step that appends one assistant turn; and under fairness of
\* the model call's completion a send in flight leads to the flag clear.
C10_AcceptedSendCompletes ==
  /\ [](isLoading <=> SendInFlight)
  /\ [][(SendInFlight /\ ~SendInFlight') =>
          /\ Len(chatHistory') = Len(chatHistory) + 1
          /\ chatHistory'[Len(chatHistory')].sender = "bot"
          /\ SubSeq(chatHistory', 1, Len(chatHistory)) = chatHistory]_vars
  /\ SendInFlight ~> ~isLoading

\* an accepted send has completed with the formatted answer
C10_Witness ==
  /\ event = "send succeeded"
  /\ ~isLoading
  /\ Len(chatHistory) >= 2
  /\ chatHistory[Len(chatHistory) - 1].sender = "user"
  /\ Has(chatHistory[Len(chatHistory)].content, "answer")

====
